---------------------------- MODULE Spec2Model ----------------------------
(***************************************************************************)
(* Model of the hard-link deduplicator's Files Index                       *)
(* (src/src/lib/files_index.rs) running over the in-memory filesystem      *)
(* TestFs (src/src/lib/fs.rs).                                              *)
(*                                                                         *)
(* A path is a sequence of name components: <<"a">> is the file "a" and    *)
(* <<"a", "backup">> is "a.backup".  A file content is a sequence of       *)
(* bytes.  Option<u128> is a sequence of length 0 (None) or 1 (Some).      *)
(* Slot ids are 0-based as in the code; slot i is entries[i + 1].          *)
(*                                                                         *)
(* add_file runs as one step up to the head of the link transaction; the   *)
(* transaction hard_link_and_insert then runs one filesystem call per      *)
(* step (pc), so that its intermediate states are states of the model.     *)
(* A failed assert!/unwrap ends the run (pc = "panicked").                 *)
(***************************************************************************)
EXTENDS Integers, Sequences, FiniteSets, TLC

VARIABLES
    test_fs,    \* TestFs: [filedata_, inodes_]
    index,      \* FilesIndex: [entries, by_relative_path, by_size, by_inode,
                \*              by_hash, inode_by_size, inode_by_hash]
    pc,         \* position of the running add_file call
    tx,         \* arguments of the running link transaction
    call,       \* the last add_file call: its path, result and returned entry
    fs0,        \* history: the filesystem before the first call
    called,     \* history: the paths a walk of the tree has called add_file on
    compared    \* a call of compare_files on its own: its arguments and its result

vars == <<test_fs, index, pc, tx, call, fs0, called, compared>>

---------------------------------------------------------------------------
(* Bounds *)

\* at most this many files exist before the first call
MaxFiles == 3
\* the largest byte value a file holds
MaxByte == 1

Bytes == 0..MaxByte

\* BufReader capacity of compare_files
BUFSIZE == 4096

\* the longest stream compare_files is given when it is called on its own
MaxStream == 3

\* the paths add_file is called on, in a fixed order
PathSeq == << <<"a">>, <<"b">>, <<"b", "backup">>, <<"c">> >>

AllPaths == {PathSeq[i] : i \in 1..Len(PathSeq)}

\* a file is empty or holds one byte
Contents == {<<>>} \cup {<<b>> : b \in Bytes}

---------------------------------------------------------------------------
(* Maps and options *)

None == <<>>

Some(x) == <<x>>

MapPut(m, k, v) == [x \in DOMAIN m \cup {k} |-> IF x = k THEN v ELSE m[x]]

MapDel(m, k) == [x \in DOMAIN m \ {k} |-> m[x]]

\* map.entry(k).or_default().insert(v)
BucketInsert(m, k, v) == MapPut(m, k, (IF k \in DOMAIN m THEN m[k] ELSE {}) \cup {v})

\* map.get_mut(&k).unwrap().remove(&v); the key stays
BucketRemove(m, k, v) == [m EXCEPT ![k] = @ \ {v}]

Min(x, y) == IF x <= y THEN x ELSE y

Perms(S) == {f \in [1..Cardinality(S) -> S] : \A x \in S : \E i \in DOMAIN f : f[i] = x}

---------------------------------------------------------------------------
(* TestFs *)

\* TestFs::next_inode
next_inode(fs) ==
    (IF DOMAIN fs.inodes_ = {} THEN 1
     ELSE CHOOSE m \in {fs.inodes_[p] : p \in DOMAIN fs.inodes_} :
              \A p \in DOMAIN fs.inodes_ : fs.inodes_[p] <= m) + 1

\* TestFs::add_text_file
add_text_file(fs, filename, filedata) ==
    LET fs1 == [fs EXCEPT !.filedata_ = MapPut(@, filename, filedata)]
    IN  [fs1 EXCEPT !.inodes_ = MapPut(@, filename, next_inode(fs1))]

\* TestFs::open
open(fs, path) ==
    IF path \in DOMAIN fs.filedata_
    THEN [ok |-> TRUE, file |-> fs.filedata_[path]]
    ELSE [ok |-> FALSE, file |-> <<>>]

\* TestFs::metadata: (size, inode)
metadata(fs, path) ==
    IF path \in DOMAIN fs.filedata_ /\ path \in DOMAIN fs.inodes_
    THEN [ok |-> TRUE, size |-> Len(fs.filedata_[path]), inode |-> fs.inodes_[path]]
    ELSE [ok |-> FALSE, size |-> 0, inode |-> 0]

\* TestFs::hard_link
hard_link(fs, src, dst) ==
    IF dst \in DOMAIN fs.filedata_ THEN [ok |-> FALSE, fs |-> fs]
    ELSE IF src \notin DOMAIN fs.filedata_ THEN [ok |-> FALSE, fs |-> fs]
    ELSE IF src \notin DOMAIN fs.inodes_ THEN [ok |-> FALSE, fs |-> fs]
    ELSE [ok |-> TRUE,
          fs |-> [filedata_ |-> MapPut(fs.filedata_, dst, fs.filedata_[src]),
                  inodes_   |-> MapPut(fs.inodes_, dst, fs.inodes_[src])]]

\* TestFs::remove_file
remove_file(fs, path) ==
    IF path \notin DOMAIN fs.inodes_ THEN [ok |-> FALSE, fs |-> fs]
    ELSE LET fs1 == [fs EXCEPT !.inodes_ = MapDel(@, path)] IN
         IF path \notin DOMAIN fs.filedata_ THEN [ok |-> FALSE, fs |-> fs1]
         ELSE [ok |-> TRUE, fs |-> [fs1 EXCEPT !.filedata_ = MapDel(@, path)]]

\* TestFs::rename
rename(fs, from, to) ==
    IF from \notin DOMAIN fs.filedata_ THEN [ok |-> FALSE, fs |-> fs]
    ELSE IF from \notin DOMAIN fs.inodes_ THEN [ok |-> FALSE, fs |-> fs]
    ELSE LET file_content == fs.filedata_[from]
             inode == fs.inodes_[from]
             \* if an existing file exists, overwrite it
             over == IF to \in DOMAIN fs.filedata_ THEN remove_file(fs, to)
                     ELSE [ok |-> TRUE, fs |-> fs]
             \* remove the old file
             gone == remove_file(over.fs, from)
         IN  IF ~over.ok THEN over
             ELSE IF ~gone.ok THEN gone
             ELSE [ok |-> TRUE,
                   fs |-> [filedata_ |-> MapPut(gone.fs.filedata_, to, file_content),
                           inodes_   |-> MapPut(gone.fs.inodes_, to, inode)]]

\* ReadOnlyFs::rename: Err(Error::ReadOnlyFs()), whatever the arguments
ReadOnlyFs_rename(fs, from, to) == [ok |-> FALSE, fs |-> fs]

---------------------------------------------------------------------------
(* FileEntry *)

NoPath == <<>>

NoEntry == [relative_path |-> NoPath, stat_size |-> 0, stat_inode |-> 0, fast_hash |-> None]

\* FileEntry::new: the tentative entry of a path, from the filesystem's metadata
FileEntry_new(fs, path) ==
    LET m == metadata(fs, path) IN
    IF ~m.ok THEN [ok |-> FALSE, entry |-> NoEntry]
    ELSE [ok |-> TRUE,
          entry |-> [relative_path |-> path, stat_size |-> m.size,
                     stat_inode |-> m.inode, fast_hash |-> None]]

\* FileEntry::eq_except_hash
eq_except_hash(e1, e2) ==
    /\ e1.relative_path = e2.relative_path
    /\ e1.stat_size = e2.stat_size
    /\ e1.stat_inode = e2.stat_inode

\* the sibling the link transaction parks the new file at
backup_path(path) == Append(path, "backup")

---------------------------------------------------------------------------
(* Digest *)

\* The 128-bit digest of the bytes written to a hasher.  Murmur3 is an external
\* library; it is modelled by a positional code of the byte sequence, which is
\* collision-free on the bounded contents and far below 2^128.
RECURSIVE finish_ext(_)
finish_ext(written) ==
    IF written = <<>> THEN 0
    ELSE finish_ext(SubSeq(written, 1, Len(written) - 1)) * (Cardinality(Bytes) + 1)
         + written[Len(written)] + 1

\* fast_hash::hash_file
hash_file(fs, path) ==
    LET f == open(fs, path) IN
    IF ~f.ok THEN [ok |-> FALSE, hash |-> 0]
    ELSE [ok |-> TRUE, hash |-> finish_ext(f.file)]

\* BufReader::fill_buf on a Cursor whose buffer was consumed whole
fill_buf(stream, pos) == SubSeq(stream, pos + 1, Min(Len(stream), pos + BUFSIZE))

\* the loop of compare_files
RECURSIVE compare_loop(_, _, _, _, _, _, _, _)
compare_loop(s1, s2, pos1, pos2, equal, hasher1, hasher2, short_circuit) ==
    LET buf1 == fill_buf(s1, pos1)
        buf2 == fill_buf(s2, pos2)
        eq == equal /\ buf1 = buf2
    IN  IF buf1 # buf2 /\ short_circuit
        THEN [ok |-> TRUE, equal |-> FALSE, hashes |-> None]
        ELSE IF buf1 = <<>>
        THEN [ok |-> TRUE, equal |-> eq,
              hashes |-> Some(<<finish_ext(hasher1), finish_ext(hasher2)>>)]
        ELSE compare_loop(s1, s2, pos1 + Len(buf1), pos2 + Len(buf2), eq,
                          hasher1 \o buf1, hasher2 \o buf2, short_circuit)

\* FilesIndex::compare_files
compare_files(fs, entry1, entry2, short_circuit) ==
    LET file1 == open(fs, entry1.relative_path)
        file2 == open(fs, entry2.relative_path)
    IN  IF ~file1.ok \/ ~file2.ok
        THEN [ok |-> FALSE, equal |-> FALSE, hashes |-> None]
        ELSE compare_loop(file1.file, file2.file, 0, 0, TRUE, <<>>, <<>>, short_circuit)

\* BufReader::fill_buf on an empty buffer over a reader whose read returns at most n
\* bytes: one read of up to BUFSIZE bytes, which may return fewer than are left
fill_buf_read(stream, pos, n) ==
    SubSeq(stream, pos + 1, Min(Len(stream), pos + Min(n, BUFSIZE)))

\* the size of the next read: reads lists the sizes the reader returns, one per
\* fill_buf; past its end every read is a full one
next_read(reads) == IF reads = <<>> THEN BUFSIZE ELSE Head(reads)

rest_reads(reads) == IF reads = <<>> THEN <<>> ELSE Tail(reads)

\* the loop of compare_files over readers that return reads1 and reads2;
\* eof1, eof2: the last fill_buf of that side returned the empty buffer
RECURSIVE compare_loop_reads(_, _, _, _, _, _, _, _, _, _)
compare_loop_reads(s1, s2, pos1, pos2, equal, hasher1, hasher2, short_circuit, reads1, reads2) ==
    LET buf1 == fill_buf_read(s1, pos1, next_read(reads1))
        buf2 == fill_buf_read(s2, pos2, next_read(reads2))
        eq == equal /\ buf1 = buf2
    IN  IF buf1 # buf2 /\ short_circuit
        THEN [ok |-> TRUE, equal |-> FALSE, hashes |-> None,
              eof1 |-> buf1 = <<>>, eof2 |-> buf2 = <<>>]
        ELSE IF buf1 = <<>>
        THEN [ok |-> TRUE, equal |-> eq,
              hashes |-> Some(<<finish_ext(hasher1), finish_ext(hasher2)>>),
              eof1 |-> TRUE, eof2 |-> buf2 = <<>>]
        ELSE compare_loop_reads(s1, s2, pos1 + Len(buf1), pos2 + Len(buf2), eq,
                                hasher1 \o buf1, hasher2 \o buf2, short_circuit,
                                rest_reads(reads1), rest_reads(reads2))

\* FilesIndex::compare_files over a filesystem whose files are read in reads1 and reads2
compare_files_reads(fs, entry1, entry2, short_circuit, reads1, reads2) ==
    LET file1 == open(fs, entry1.relative_path)
        file2 == open(fs, entry2.relative_path)
    IN  IF ~file1.ok \/ ~file2.ok
        THEN [ok |-> FALSE, equal |-> FALSE, hashes |-> None, eof1 |-> FALSE,
              eof2 |-> FALSE]
        ELSE compare_loop_reads(file1.file, file2.file, 0, 0, TRUE, <<>>, <<>>,
                                short_circuit, reads1, reads2)

\* the calls of fs.open compare_files makes: the second follows the first's success
compare_opens(fs, entry1, entry2) ==
    IF open(fs, entry1.relative_path).ok THEN 2 ELSE 1

---------------------------------------------------------------------------
(* FilesIndex *)

\* FilesIndex::new
EmptyIndex ==
    [entries |-> <<>>, by_relative_path |-> <<>>, by_size |-> <<>>, by_inode |-> <<>>,
     by_hash |-> <<>>, inode_by_size |-> <<>>, inode_by_hash |-> <<>>]

\* self.entries[idx]
EntryAt(ix, idx) == ix.entries[idx + 1]

\* update_file_entry, "new replacement for existing index, remove existing stuff"
index_remove(ix, idx, existing_entry) ==
    LET ix1 == [ix EXCEPT
                  !.by_size = BucketRemove(@, existing_entry.stat_size, idx),
                  !.by_inode = BucketRemove(@, existing_entry.stat_inode, idx),
                  !.inode_by_size = BucketRemove(@, existing_entry.stat_size,
                                                 existing_entry.stat_inode)]
    IN  IF existing_entry.fast_hash # None
        THEN [ix1 EXCEPT
                !.by_hash = BucketRemove(@, existing_entry.fast_hash[1], idx),
                !.inode_by_hash = BucketRemove(@, existing_entry.fast_hash[1],
                                               existing_entry.stat_inode)]
        ELSE ix1

\* a bug: the insertion forgets inode_by_size
index_insert_NoInodeBySize(ix, idx, file_entry) ==
    LET ix1 == [ix EXCEPT
                  !.by_relative_path = MapPut(@, file_entry.relative_path, idx),
                  !.by_size = BucketInsert(@, file_entry.stat_size, idx),
                  !.by_inode = BucketInsert(@, file_entry.stat_inode, idx)]
    IN  IF file_entry.fast_hash # None
        THEN [ix1 EXCEPT
                !.by_hash = BucketInsert(@, file_entry.fast_hash[1], idx),
                !.inode_by_hash = BucketInsert(@, file_entry.fast_hash[1],
                                               file_entry.stat_inode)]
        ELSE ix1

\* update_file_entry, "add to indexes"
index_insert(ix, idx, file_entry) ==
    LET ix1 == [ix EXCEPT
                  !.by_relative_path = MapPut(@, file_entry.relative_path, idx),
                  !.by_size = BucketInsert(@, file_entry.stat_size, idx),
                  !.by_inode = BucketInsert(@, file_entry.stat_inode, idx),
                  !.inode_by_size = BucketInsert(@, file_entry.stat_size,
                                                 file_entry.stat_inode)]
    IN  IF file_entry.fast_hash # None
        THEN [ix1 EXCEPT
                !.by_hash = BucketInsert(@, file_entry.fast_hash[1], idx),
                !.inode_by_hash = BucketInsert(@, file_entry.fast_hash[1],
                                               file_entry.stat_inode)]
        ELSE ix1

\* a bug: every call appends a slot, also for a path that has one
update_file_entry_AlwaysPush(ix, file_entry) ==
    index_insert([ix EXCEPT !.entries = Append(@, file_entry)], Len(ix.entries), file_entry)

\* a bug: no short-circuit, an entry re-observed without a hash replaces the hashed one
update_file_entry_NoShortCircuit(ix, file_entry) ==
    IF file_entry.relative_path \in DOMAIN ix.by_relative_path
    THEN LET idx == ix.by_relative_path[file_entry.relative_path]
             existing_entry == EntryAt(ix, idx)
         IN  index_insert(
                 [index_remove(ix, idx, existing_entry) EXCEPT
                     !.entries = [@ EXCEPT ![idx + 1] = file_entry]],
                 idx, file_entry)
    ELSE index_insert([ix EXCEPT !.entries = Append(@, file_entry)],
                      Len(ix.entries), file_entry)

\* FilesIndex::update_file_entry: the index after the upsert
update_file_entry(ix, file_entry) ==
    IF file_entry.relative_path \in DOMAIN ix.by_relative_path
    THEN LET idx == ix.by_relative_path[file_entry.relative_path]
             existing_entry == EntryAt(ix, idx)
         IN  \* if this wouldn't update anything useful, just short-circuit
             IF eq_except_hash(file_entry, existing_entry) /\ file_entry.fast_hash = None
             THEN ix
             ELSE index_insert(
                      [index_remove(ix, idx, existing_entry) EXCEPT
                          !.entries = [@ EXCEPT ![idx + 1] = file_entry]],
                      idx, file_entry)
    ELSE \* new index
         index_insert([ix EXCEPT !.entries = Append(@, file_entry)],
                      Len(ix.entries), file_entry)

\* the entry update_file_entry returns: &self.entries[idx]
updated_entry(ix, file_entry) ==
    EntryAt(ix, ix.by_relative_path[file_entry.relative_path])

---------------------------------------------------------------------------
(* FilesIndex::add_file up to the head of the link transaction *)

\* opened: the number of fs.open calls made so far
Outcome(kind, ix, existing_entry, new_entry, entry, opened) ==
    [kind |-> kind, index |-> ix, existing_entry |-> existing_entry,
     new_entry |-> new_entry, entry |-> entry, opened |-> opened]

\* return Ok(self.update_file_entry(&file_entry))
ReturnUpsert(ix, file_entry, opened) ==
    LET ix1 == update_file_entry(ix, file_entry)
    IN  Outcome("Ok", ix1, NoEntry, NoEntry, updated_entry(ix1, file_entry), opened)

\* an early return of Err by the ? operator
ReturnErr(ix, opened) == Outcome("Err", ix, NoEntry, NoEntry, NoEntry, opened)

\* the call of hard_link_and_insert(fs, &existing_entry, &new_entry)
EnterLink(ix, existing_entry, new_entry, opened) ==
    Outcome("Link", ix, existing_entry, new_entry, NoEntry, opened)

\* "for &idx in potential_dupes", from position k of the set's iteration order
RECURSIVE scan_dupes(_, _, _, _, _, _)
scan_dupes(ix, fs, new_entry, order, k, opened) ==
    IF k > Len(order)
    THEN \* we didn't find any matches, and this file is unique
         ReturnUpsert(ix, new_entry, opened)
    ELSE LET existing_entry == EntryAt(ix, order[k])
             cmp == compare_files(fs, existing_entry, new_entry, TRUE)
             opened1 == opened + compare_opens(fs, existing_entry, new_entry)
         IN  IF ~cmp.ok THEN ReturnErr(ix, opened1)
             ELSE IF cmp.equal THEN EnterLink(ix, existing_entry, new_entry, opened1)
             ELSE scan_dupes(ix, fs, new_entry, order, k + 1, opened1)

\* a bug: the new entry is upserted although the comparison ended with an error
one_candidate_UpsertOnErr(ix, fs, new_entry, existing_entry_idx) ==
    LET existing_entry == EntryAt(ix, existing_entry_idx)
        cmp == compare_files(fs, existing_entry, new_entry, FALSE)
        opened == compare_opens(fs, existing_entry, new_entry)
    IN  IF ~cmp.ok THEN ReturnErr(update_file_entry(ix, new_entry), opened)
        ELSE LET updated_existing_entry ==
                     [existing_entry EXCEPT !.fast_hash = Some(cmp.hashes[1][1])]
                 ix1 == update_file_entry(ix, updated_existing_entry)
                 hashed_new_entry == [new_entry EXCEPT !.fast_hash = Some(cmp.hashes[1][2])]
             IN  IF cmp.equal
                 THEN EnterLink(ix1, updated_existing_entry, hashed_new_entry, opened)
                 ELSE ReturnUpsert(ix1, hashed_new_entry, opened)

\* a bug: an equal candidate is hashed and the new file upserted, without linking
one_candidate_NoLink(ix, fs, new_entry, existing_entry_idx) ==
    LET existing_entry == EntryAt(ix, existing_entry_idx)
        cmp == compare_files(fs, existing_entry, new_entry, FALSE)
        opened == compare_opens(fs, existing_entry, new_entry)
    IN  IF ~cmp.ok THEN ReturnErr(ix, opened)
        ELSE ReturnUpsert(
                 update_file_entry(ix, [existing_entry EXCEPT
                                           !.fast_hash = Some(cmp.hashes[1][1])]),
                 [new_entry EXCEPT !.fast_hash = Some(cmp.hashes[1][2])], opened)

\* a bug: the candidate's digest is computed but never stored in the index
one_candidate_NoExistingHash(ix, fs, new_entry, existing_entry_idx) ==
    LET existing_entry == EntryAt(ix, existing_entry_idx)
        cmp == compare_files(fs, existing_entry, new_entry, FALSE)
        opened == compare_opens(fs, existing_entry, new_entry)
    IN  IF ~cmp.ok THEN ReturnErr(ix, opened)
        ELSE LET updated_existing_entry ==
                     [existing_entry EXCEPT !.fast_hash = Some(cmp.hashes[1][1])]
                 hashed_new_entry == [new_entry EXCEPT !.fast_hash = Some(cmp.hashes[1][2])]
             IN  IF cmp.equal
                 THEN EnterLink(ix, updated_existing_entry, hashed_new_entry, opened)
                 ELSE ReturnUpsert(ix, hashed_new_entry, opened)

\* the branch "potential_dupes.len() == 1"
one_candidate(ix, fs, new_entry, existing_entry_idx) ==
    LET existing_entry == EntryAt(ix, existing_entry_idx)
        cmp == compare_files(fs, existing_entry, new_entry, FALSE)
        opened == compare_opens(fs, existing_entry, new_entry)
    IN  IF ~cmp.ok THEN ReturnErr(ix, opened)
        ELSE LET updated_existing_entry ==
                     [existing_entry EXCEPT !.fast_hash = Some(cmp.hashes[1][1])]
                 ix1 == update_file_entry(ix, updated_existing_entry)
                 hashed_new_entry == [new_entry EXCEPT !.fast_hash = Some(cmp.hashes[1][2])]
             IN  IF cmp.equal
                 THEN \* they are equal, so this is a duplicate file
                      EnterLink(ix1, updated_existing_entry, hashed_new_entry, opened)
                 ELSE \* it's a non-duplicate, so just insert it
                      ReturnUpsert(ix1, hashed_new_entry, opened)

\* the branch "file is non-unique in length, so we will now hash the whole thing"
many_candidates(ix, fs, new_entry, order) ==
    LET h == hash_file(fs, new_entry.relative_path)
    IN  IF ~h.ok THEN ReturnErr(ix, 1)
        ELSE scan_dupes(ix, fs, [new_entry EXCEPT !.fast_hash = Some(h.hash)], order, 1, 1)

\* a bug: the new file is hashed before the inode and size lookups
add_file_HashFirst(ix, fs, path, order) ==
    LET made == FileEntry_new(fs, path)
        h == hash_file(fs, path)
        new_entry == [made.entry EXCEPT !.fast_hash = Some(h.hash)]
    IN  IF ~made.ok THEN ReturnErr(ix, 0)
        ELSE IF ~h.ok THEN ReturnErr(ix, 1)
        ELSE IF new_entry.stat_inode \in DOMAIN ix.by_inode
        THEN ReturnUpsert(ix, new_entry, 1)
        ELSE IF new_entry.stat_size \notin DOMAIN ix.by_size
        THEN ReturnUpsert(ix, new_entry, 1)
        ELSE LET potential_dupes == ix.by_size[new_entry.stat_size]
             IN  IF Cardinality(potential_dupes) = 1
                 THEN one_candidate(ix, fs, made.entry, CHOOSE i \in potential_dupes : TRUE)
                 ELSE many_candidates(ix, fs, made.entry, order)

\* FilesIndex::add_file; order is the iteration order of the size bucket
add_file(ix, fs, path, order) ==
    LET made == FileEntry_new(fs, path)
        new_entry == made.entry
    IN  IF ~made.ok THEN ReturnErr(ix, 0)
        ELSE IF new_entry.stat_inode \in DOMAIN ix.by_inode
        THEN \* this file is already deduplicated into this index
             ReturnUpsert(ix, new_entry, 0)
        ELSE IF new_entry.stat_size \notin DOMAIN ix.by_size
        THEN \* this file is unique because nothing in the index could match it by length
             ReturnUpsert(ix, new_entry, 0)
        ELSE LET potential_dupes == ix.by_size[new_entry.stat_size]
             IN  IF Cardinality(potential_dupes) = 1
                 THEN one_candidate(ix, fs, new_entry, CHOOSE i \in potential_dupes : TRUE)
                 ELSE many_candidates(ix, fs, new_entry, order)

\* the set a call of add_file on path iterates over in "for &idx in potential_dupes";
\* empty when the call returns before the loop
size_bucket(ix, fs, path) ==
    LET made == FileEntry_new(fs, path)
    IN  IF /\ made.ok
           /\ made.entry.stat_inode \notin DOMAIN ix.by_inode
           /\ made.entry.stat_size \in DOMAIN ix.by_size
           /\ Cardinality(ix.by_size[made.entry.stat_size]) # 1
        THEN ix.by_size[made.entry.stat_size]
        ELSE {}

\* the branch of add_file a call on path takes
admission_case(ix, fs, path) ==
    LET made == FileEntry_new(fs, path)
    IN  IF ~made.ok THEN "no_entry"
        ELSE IF made.entry.stat_inode \in DOMAIN ix.by_inode THEN "inode_known"
        ELSE IF made.entry.stat_size \notin DOMAIN ix.by_size THEN "size_unique"
        ELSE IF Cardinality(ix.by_size[made.entry.stat_size]) = 1 THEN "one_candidate"
        ELSE "many_candidates"

\* the three assertions at the head of hard_link_and_insert
link_asserts(existing_entry, new_entry) ==
    /\ new_entry.stat_size = existing_entry.stat_size
    /\ new_entry.fast_hash = existing_entry.fast_hash
    /\ new_entry.stat_inode # existing_entry.stat_inode

\* what a call of add_file leaves behind: its result, the filesystem, the index and
\* the returned entry
Ended(result, fs, ix, entry) == [result |-> result, fs |-> fs, index |-> ix, entry |-> entry]

\* FilesIndex::hard_link_and_insert, from its assertions to its return
hard_link_and_insert(ix, fs, existing_entry, new_entry) ==
    IF ~link_asserts(existing_entry, new_entry) THEN Ended("panic", fs, ix, NoEntry)
    ELSE
    LET renamed == rename(fs, new_entry.relative_path, backup_path(new_entry.relative_path))
        linked  == hard_link(renamed.fs, existing_entry.relative_path,
                             new_entry.relative_path)
        made    == FileEntry_new(linked.fs, new_entry.relative_path)
        checked_new_entry == [made.entry EXCEPT !.fast_hash = new_entry.fast_hash]
        removed == remove_file(linked.fs, backup_path(new_entry.relative_path))
        ix1     == update_file_entry(ix, checked_new_entry)
    IN  IF ~renamed.ok THEN Ended("Err", renamed.fs, ix, NoEntry)
        ELSE IF ~linked.ok THEN Ended("Err", linked.fs, ix, NoEntry)
        ELSE IF ~made.ok THEN Ended("Err", linked.fs, ix, NoEntry)
        ELSE IF ~(/\ checked_new_entry.fast_hash = existing_entry.fast_hash
                  /\ checked_new_entry.stat_size = existing_entry.stat_size
                  /\ checked_new_entry.stat_inode = existing_entry.stat_inode)
        THEN Ended("panic", linked.fs, ix, NoEntry)
        ELSE IF ~removed.ok THEN Ended("Err", removed.fs, ix, NoEntry)
        ELSE Ended("Ok", removed.fs, ix1, updated_entry(ix1, checked_new_entry))

\* FilesIndex::add_file from the call to its return, the link transaction included
add_file_run(ix, fs, path, order) ==
    LET out == add_file(ix, fs, path, order)
    IN  IF out.kind = "Link"
        THEN hard_link_and_insert(out.index, fs, out.existing_entry, out.new_entry)
        ELSE Ended(out.kind, fs, out.index, out.entry)

---------------------------------------------------------------------------
(* The sidecar: FilesIndex::save, for_base_path and from_entries *)

\* a number as its decimal digits, most significant first
RECURSIVE to_decimal(_)
to_decimal(n) == IF n < 10 THEN <<n>> ELSE Append(to_decimal(n \div 10), n % 10)

\* the number a non-empty digit sequence stands for
RECURSIVE from_decimal(_)
from_decimal(digits) ==
    IF Len(digits) = 1 THEN digits[1]
    ELSE from_decimal(SubSeq(digits, 1, Len(digits) - 1)) * 10 + digits[Len(digits)]

\* one row per entry, columns relative_path, fast_hash, stat_size, stat_inode; the
\* fast_hash field is empty or the decimal digits of the digest
serialize(entry) ==
    << entry.relative_path,
       IF entry.fast_hash = None THEN <<>> ELSE to_decimal(entry.fast_hash[1]),
       to_decimal(entry.stat_size),
       to_decimal(entry.stat_inode) >>

\* the entry of a row
deserialize(row) ==
    [relative_path |-> row[1],
     stat_size     |-> from_decimal(row[3]),
     stat_inode    |-> from_decimal(row[4]),
     fast_hash     |-> IF row[2] = <<>> THEN None ELSE Some(from_decimal(row[2]))]

\* FilesIndex::save: the rows written to .index_file.csv, in slot order
save(ix) == [i \in 1..Len(ix.entries) |-> serialize(ix.entries[i])]

\* the items of an iterator
items(entries) == {entries[i] : i \in 1..Len(entries)}

\* entries.into_iter().enumerate(): the items of the iterator it is given, numbered from 0
enumerate(entries) == {<<i - 1, entries[i]>> : i \in 1..Len(entries)}

\* group_by_with_value_func; a closure is the function from its arguments to its result
group_by_with_value_func(entries, key_func, value_func) ==
    [k \in {key_func[e] : e \in items(entries)} |->
        {value_func[x] : x \in {y \in enumerate(entries) : key_func[y[2]] = k}}]

\* group_by: the values are the positions in the iterator, |i, _| i
group_by(entries, f) ==
    group_by_with_value_func(entries, f, [x \in enumerate(entries) |-> x[1]])

\* entries.iter().filter(|e| e.fast_hash.is_some())
hashed_entries(entries) == SelectSeq(entries, LAMBDA e : e.fast_hash # None)

\* the collect() of (relative_path, i) pairs into a HashMap: a later pair replaces an
\* earlier one with the same key
RECURSIVE by_path(_, _)
by_path(entries, n) ==
    IF n = 0 THEN <<>>
    ELSE MapPut(by_path(entries, n - 1), entries[n].relative_path, n - 1)

\* FilesIndex::from_entries
from_entries(entries) ==
    LET hashed == hashed_entries(entries) IN
    [entries          |-> entries,
     by_relative_path |-> by_path(entries, Len(entries)),
     by_size          |-> group_by(entries, [e \in items(entries) |-> e.stat_size]),
     by_inode         |-> group_by(entries, [e \in items(entries) |-> e.stat_inode]),
     by_hash          |-> group_by(hashed, [e \in items(hashed) |-> e.fast_hash[1]]),
     inode_by_size    |-> group_by_with_value_func(
                              entries,
                              [e \in items(entries) |-> e.stat_size],
                              [x \in enumerate(entries) |-> x[2].stat_inode]),
     inode_by_hash    |-> group_by_with_value_func(
                              hashed,
                              [e \in items(hashed) |-> e.fast_hash[1]],
                              [x \in enumerate(hashed) |-> x[2].stat_inode])]

\* FilesIndex::for_base_path on a sidecar of these rows
for_base_path(rows) == from_entries([i \in 1..Len(rows) |-> deserialize(rows[i])])

\* a row the codec can read: the u64 fields stat_size and stat_inode hold digits
well_formed(row) == Len(row) = 4 /\ row[3] # <<>> /\ row[4] # <<>>

\* FilesIndex::for_base_path with its two ? exits: sidecar is None when the file
\* .index_file.csv does not exist (fs.open fails), else Some(rows)
try_for_base_path(sidecar) ==
    IF sidecar = None
    THEN [ok |-> FALSE, index |-> EmptyIndex]
    ELSE IF \E i \in 1..Len(sidecar[1]) : ~well_formed(sidecar[1][i])
    THEN [ok |-> FALSE, index |-> EmptyIndex]
    ELSE [ok |-> TRUE, index |-> for_base_path(sidecar[1])]

\* map.get(key).unwrap().contains(value)
unwrap_contains(m, k, v) == k \in DOMAIN m /\ v \in m[k]

\* FilesIndex::sanity_check: TRUE when no assert fails and no index or unwrap panics
sanity_check(ix) ==
    LET n == Len(ix.entries) IN
    /\ \A i \in 0..(n - 1) :
         LET entry == EntryAt(ix, i) IN
         /\ entry.relative_path \in DOMAIN ix.by_relative_path
         /\ ix.by_relative_path[entry.relative_path] = i
         /\ unwrap_contains(ix.by_size, entry.stat_size, i)
         /\ unwrap_contains(ix.by_inode, entry.stat_inode, i)
         /\ unwrap_contains(ix.inode_by_size, entry.stat_size, entry.stat_inode)
         /\ entry.fast_hash # None =>
                /\ unwrap_contains(ix.by_hash, entry.fast_hash[1], i)
                /\ unwrap_contains(ix.inode_by_hash, entry.fast_hash[1], entry.stat_inode)
    /\ \A key \in DOMAIN ix.by_size : \A idx \in ix.by_size[key] :
         idx < n /\ EntryAt(ix, idx).stat_size = key
    /\ \A key \in DOMAIN ix.by_inode : \A idx \in ix.by_inode[key] :
         idx < n /\ EntryAt(ix, idx).stat_inode = key
    /\ \A key \in DOMAIN ix.by_hash : \A idx \in ix.by_hash[key] :
         idx < n /\ EntryAt(ix, idx).fast_hash = Some(key)
    /\ \A key \in DOMAIN ix.by_inode :
         /\ \A idx \in ix.by_inode[key] : idx < n
         /\ Cardinality({EntryAt(ix, idx).fast_hash : idx \in ix.by_inode[key]}) = 1
    /\ \A key \in DOMAIN ix.by_size :
         Cardinality(ix.by_size[key]) > 1 =>
            \A idx \in ix.by_size[key] : idx < n /\ EntryAt(ix, idx).fast_hash # None

---------------------------------------------------------------------------
(* State *)

NoTx == [existing_entry |-> NoEntry, new_entry |-> NoEntry, checked_new_entry |-> NoEntry,
         bytes |-> <<>>]

NoCall == [path |-> NoPath, result |-> "none", entry |-> NoEntry, failed_at |-> "none",
           again |-> FALSE, branch |-> "none", opened |-> 0]

NotCompared == [at |-> "none"]

\* again: the call before this one was on the same path and returned Ok;
\* branch: the branch of add_file the call took; opened: its fs.open calls
Returned(c, result, entry, failed_at) ==
    [path |-> c.path, result |-> result, entry |-> entry, failed_at |-> failed_at,
     again |-> c.again, branch |-> c.branch, opened |-> c.opened]

\* paths that share an inode share their bytes
Linked(data, ino) ==
    \A p, q \in DOMAIN data : ino[p] = ino[q] => data[p] = data[q]

\* inode numbers are given in the order of PathSeq, without gaps
Canonical(ino) ==
    \A i \in 1..Len(PathSeq) :
        PathSeq[i] \in DOMAIN ino =>
            \/ ino[PathSeq[i]] = 1 /\ \A j \in 1..(i - 1) : PathSeq[j] \notin DOMAIN ino
            \/ \E j \in 1..(i - 1) :
                   /\ PathSeq[j] \in DOMAIN ino
                   /\ ino[PathSeq[i]] <= ino[PathSeq[j]] + 1
                   /\ ino[PathSeq[i]] >= 1

InitialFs ==
    {[filedata_ |-> data, inodes_ |-> ino] :
        <<data, ino>> \in UNION {
            {dn \in [present -> Contents] \X [present -> 1..MaxFiles] :
                Linked(dn[1], dn[2]) /\ Canonical(dn[2])} :
            present \in {s \in SUBSET AllPaths : Cardinality(s) <= MaxFiles}}}

Init ==
    /\ test_fs \in InitialFs
    /\ index = EmptyIndex
    /\ pc = "idle"
    /\ tx = NoTx
    /\ call = NoCall
    /\ fs0 = test_fs
    /\ compared = NotCompared
    /\ called = {}

---------------------------------------------------------------------------
(* Actions *)

\* add_file(fs, path), until it returns or enters the link transaction
add_file_call(path) ==
    /\ pc = "idle"
    /\ \E order \in Perms(size_bucket(index, test_fs, path)) :
         LET out == add_file(index, test_fs, path, order)
             c == [path |-> path, again |-> call.result = "Ok" /\ call.path = path,
                   branch |-> admission_case(index, test_fs, path), opened |-> out.opened]
         IN
         /\ index' = out.index
         /\ IF out.kind = "Link"
            THEN IF link_asserts(out.existing_entry, out.new_entry)
                 THEN /\ pc' = "rename"
                      /\ call' = Returned(c, "pending", NoEntry, "none")
                 ELSE /\ pc' = "panicked"
                      /\ call' = Returned(c, "panic", NoEntry, "assert")
            ELSE /\ pc' = "idle"
                 /\ call' = Returned(c, out.kind, out.entry, "none")
         /\ tx' = IF out.kind = "Link"
                  THEN [existing_entry |-> out.existing_entry, new_entry |-> out.new_entry,
                        checked_new_entry |-> NoEntry, bytes |-> test_fs.filedata_[path]]
                  ELSE NoTx
    /\ UNCHANGED <<test_fs, fs0, compared>>

\* a call of add_file on any path, any number of times
AddFile(path) ==
    /\ add_file_call(path)
    /\ UNCHANGED called

\* the walker's call of add_file on a path of the tree it has not visited yet
WalkAddFile(path) ==
    /\ path \in DOMAIN fs0.filedata_ \ called
    /\ add_file_call(path)
    /\ called' = called \cup {path}

\* the ? of a failed filesystem call inside the transaction
TxErr(step) ==
    /\ pc' = "idle"
    /\ call' = Returned(call, "Err", NoEntry, step)

\* hard_link_and_insert: fs.rename(new, new.backup)?
TxRename ==
    /\ pc = "rename"
    /\ LET r == rename(test_fs, tx.new_entry.relative_path,
                       backup_path(tx.new_entry.relative_path)) IN
       /\ test_fs' = r.fs
       /\ IF r.ok THEN pc' = "hard_link" /\ call' = call ELSE TxErr("rename")
    /\ UNCHANGED <<index, tx, fs0, compared, called>>

\* hard_link_and_insert: fs.hard_link(existing, new)?
TxHardLink ==
    /\ pc = "hard_link"
    /\ LET r == hard_link(test_fs, tx.existing_entry.relative_path,
                          tx.new_entry.relative_path) IN
       /\ test_fs' = r.fs
       /\ IF r.ok THEN pc' = "restat" /\ call' = call ELSE TxErr("hard_link")
    /\ UNCHANGED <<index, tx, fs0, compared, called>>

\* a bug: the re-stat is not compared with the existing entry
TxRestat_NoAssert ==
    /\ pc = "restat"
    /\ LET made == FileEntry_new(test_fs, tx.new_entry.relative_path)
           checked_new_entry == [made.entry EXCEPT !.fast_hash = tx.new_entry.fast_hash]
       IN  IF ~made.ok
           THEN TxErr("restat") /\ tx' = tx
           ELSE /\ pc' = "remove"
                /\ call' = call
                /\ tx' = [tx EXCEPT !.checked_new_entry = checked_new_entry]
    /\ UNCHANGED <<test_fs, index, fs0, compared, called>>

\* a bug: a re-stat that disagrees removes the .backup before the run aborts
TxRestat_DropBackup ==
    /\ pc = "restat"
    /\ LET made == FileEntry_new(test_fs, tx.new_entry.relative_path)
           checked_new_entry == [made.entry EXCEPT !.fast_hash = tx.new_entry.fast_hash]
       IN  IF ~made.ok
           THEN TxErr("restat") /\ tx' = tx /\ test_fs' = test_fs
           ELSE IF /\ checked_new_entry.fast_hash = tx.existing_entry.fast_hash
                   /\ checked_new_entry.stat_size = tx.existing_entry.stat_size
                   /\ checked_new_entry.stat_inode = tx.existing_entry.stat_inode
           THEN /\ pc' = "remove"
                /\ call' = call
                /\ tx' = [tx EXCEPT !.checked_new_entry = checked_new_entry]
                /\ test_fs' = test_fs
           ELSE /\ pc' = "panicked"
                /\ call' = Returned(call, "panic", NoEntry, "restat")
                /\ tx' = tx
                /\ test_fs' = remove_file(test_fs,
                                          backup_path(tx.new_entry.relative_path)).fs
    /\ UNCHANGED <<index, fs0, compared, called>>

\* hard_link_and_insert: FileEntry::new(fs, new)? and the assert_eq! on it
TxRestat ==
    /\ pc = "restat"
    /\ LET made == FileEntry_new(test_fs, tx.new_entry.relative_path)
           checked_new_entry == [made.entry EXCEPT !.fast_hash = tx.new_entry.fast_hash]
       IN  IF ~made.ok
           THEN TxErr("restat") /\ tx' = tx
           ELSE IF /\ checked_new_entry.fast_hash = tx.existing_entry.fast_hash
                   /\ checked_new_entry.stat_size = tx.existing_entry.stat_size
                   /\ checked_new_entry.stat_inode = tx.existing_entry.stat_inode
           THEN /\ pc' = "remove"
                /\ call' = call
                /\ tx' = [tx EXCEPT !.checked_new_entry = checked_new_entry]
           ELSE /\ pc' = "panicked"
                /\ call' = Returned(call, "panic", NoEntry, "restat")
                /\ tx' = tx
    /\ UNCHANGED <<test_fs, index, fs0, compared, called>>

\* hard_link_and_insert: fs.remove_file(new.backup)? and the upsert
TxRemove ==
    /\ pc = "remove"
    /\ LET r == remove_file(test_fs, backup_path(tx.new_entry.relative_path)) IN
       /\ test_fs' = r.fs
       /\ IF r.ok
          THEN LET ix1 == update_file_entry(index, tx.checked_new_entry) IN
               /\ index' = ix1
               /\ pc' = "idle"
               /\ call' = Returned(call, "Ok", updated_entry(ix1, tx.checked_new_entry),
                                   "none")
          ELSE TxErr("remove") /\ index' = index
    /\ UNCHANGED <<tx, fs0, compared, called>>

\* a filesystem call of the transaction returns an error and changes nothing
TxFault ==
    /\ pc \in {"rename", "hard_link", "restat", "remove"}
    /\ TxErr(pc)
    /\ UNCHANGED <<test_fs, index, tx, fs0, compared, called>>

Next ==
    \/ \E path \in AllPaths : AddFile(path)
    \/ TxRename
    \/ TxHardLink
    \/ TxRestat
    \/ TxRemove

Spec == Init /\ [][Next]_vars

\* the same program over a filesystem whose calls may fail
NextIO ==
    \/ Next
    \/ TxFault

SpecIO == Init /\ [][NextIO]_vars

\* a walk of the tree: add_file is called once on every path of the tree
NextOnce ==
    \/ \E path \in AllPaths : WalkAddFile(path)
    \/ TxRename
    \/ TxHardLink
    \/ TxRestat
    \/ TxRemove

SpecOnce == Init /\ [][NextOnce]_vars

\* hard_link_and_insert over ReadOnlyFs: fs.rename(new, new.backup)?
RoTxRename ==
    /\ pc = "rename"
    /\ LET r == ReadOnlyFs_rename(test_fs, tx.new_entry.relative_path,
                                  backup_path(tx.new_entry.relative_path)) IN
       /\ test_fs' = r.fs
       /\ IF r.ok THEN pc' = "hard_link" /\ call' = call ELSE TxErr("rename")
    /\ UNCHANGED <<index, tx, fs0, compared, called>>

\* a dry run: the program over the read-only filesystem, which reads like the real one
NextRO ==
    \/ \E path \in AllPaths : AddFile(path)
    \/ RoTxRename

SpecRO == Init /\ [][NextRO]_vars

\* the end of one run and the start of the next over the same tree: run_for_folder
\* ends with sanity_check, run saves the index, and the next run_for_folder loads what
\* was saved and calls sanity_check on it
Restart ==
    /\ pc = "idle"
    /\ sanity_check(index)
    /\ index' = for_base_path(save(index))
    /\ pc' = IF sanity_check(index') THEN "idle" ELSE "panicked"
    /\ call' = NoCall
    /\ tx' = NoTx
    /\ UNCHANGED <<test_fs, fs0, compared, called>>

\* runs of the program, one after the other over the same tree
NextRestart ==
    \/ Next
    \/ Restart

SpecRestart == Init /\ [][NextRestart]_vars

\* a tree whose files all hold the same bytes, at least two of them
ReloadFs ==
    {fs \in InitialFs :
        /\ Cardinality(DOMAIN fs.filedata_) >= 2
        /\ \A p, q \in DOMAIN fs.filedata_ : fs.filedata_[p] = fs.filedata_[q]}

\* the inode a sidecar row may record: one of the tree's or one no file has now
RecordedInodes == 1..(MaxFiles + 1)

\* a sidecar written by an earlier run that linked the files of the tree together:
\* one row per file, with the file's size and digest and the one inode stat_inode
sidecar_rows(fs, stat_inode) ==
    LET listed == SelectSeq(PathSeq, LAMBDA p : p \in DOMAIN fs.filedata_) IN
    [i \in 1..Len(listed) |->
        serialize([relative_path |-> listed[i],
                   stat_size     |-> Len(fs.filedata_[listed[i]]),
                   stat_inode    |-> stat_inode,
                   fast_hash     |-> Some(finish_ext(fs.filedata_[listed[i]]))])]

\* a run that starts from such a sidecar: for_base_path, then sanity_check
InitReload ==
    /\ test_fs \in ReloadFs
    /\ \E stat_inode \in RecordedInodes :
          index = for_base_path(sidecar_rows(test_fs, stat_inode))
    /\ sanity_check(index)
    /\ pc = "idle"
    /\ tx = NoTx
    /\ call = NoCall
    /\ fs0 = test_fs
    /\ compared = NotCompared
    /\ called = {}

\* the walk of the tree after the load
SpecReload == InitReload /\ [][NextOnce]_vars

---------------------------------------------------------------------------
(* A tree that is walked again after one of its files was replaced *)

\* after the walk a file of the tree is written anew, new bytes under a new inode, and
\* the walk starts again; a file is replaced only while the tree holds no inode newer
\* than at the start
Replace ==
    /\ pc = "idle"
    /\ called = DOMAIN fs0.filedata_
    /\ next_inode(test_fs) = next_inode(fs0)
    /\ \E filename \in DOMAIN test_fs.filedata_, filedata \in Contents :
          test_fs' = add_text_file(test_fs, filename, filedata)
    /\ called' = {}
    /\ UNCHANGED <<index, pc, tx, call, fs0, compared>>

\* the walk yields a path that is gone when add_file stats it
Vanished ==
    \E path \in AllPaths \ DOMAIN test_fs.filedata_ : AddFile(path)

NextReplace ==
    \/ NextOnce
    \/ Replace
    \/ Vanished

\* the trees of two files
ReplaceFs == {fs \in InitialFs : Cardinality(DOMAIN fs.filedata_) = 2}

InitReplace ==
    /\ test_fs \in ReplaceFs
    /\ index = EmptyIndex
    /\ pc = "idle"
    /\ tx = NoTx
    /\ call = NoCall
    /\ fs0 = test_fs
    /\ compared = NotCompared
    /\ called = {}

SpecReplace == InitReplace /\ [][NextReplace]_vars

---------------------------------------------------------------------------
(* A run of the program: main.rs run and run_for_folder *)

\* the file .index_file.csv of the base folder
SidecarPath == <<"", "index_file", "csv">>

\* Path::file_name of a file of the base folder
file_name(path) == path

\* Path::extension: the part of the file name after its last dot, without the dot;
\* None for a name without a dot or with only a leading one
extension(path) ==
    IF Len(path) > 1 /\ ~(Len(path) = 2 /\ path[1] = "")
    THEN Some(path[Len(path)])
    ELSE None

\* the two early returns of the walker's closure
skipped(path) ==
    \/ file_name(path) = SidecarPath
    \/ extension(path) = Some(".backup")

\* the files WalkDir yields: those of the tree and the sidecar, which exists whenever
\* for_base_path returned Ok
walked(fs) == DOMAIN fs.filedata_ \cup {SidecarPath}

\* the sidecars a run may find: none, one without rows, one with a row that cannot be
\* read
Sidecars ==
    {None, Some(<<>>), Some(<< <<(<<"a">>), <<>>, <<>>, <<1>> >> >>)}

InitRun ==
    /\ test_fs \in InitialFs
    /\ index = EmptyIndex
    /\ pc = "start"
    /\ tx = NoTx
    /\ call = NoCall
    /\ fs0 = test_fs
    /\ compared = NotCompared
    /\ called = {}

\* run_for_folder: FilesIndex::for_base_path(fs, &base_path)? and sanity_check
Start(sidecar) ==
    /\ pc = "start"
    /\ LET loaded == try_for_base_path(sidecar) IN
       IF loaded.ok
       THEN /\ index' = loaded.index
            /\ pc' = IF sanity_check(loaded.index) THEN "idle" ELSE "panicked"
       ELSE /\ index' = index
            /\ pc' = "failed"
    /\ UNCHANGED <<test_fs, tx, call, fs0, compared, called>>

RunStart == \E sidecar \in Sidecars : Start(sidecar)

\* the walker's closure on the next file WalkDir yields
RunWalk ==
    \E path \in walked(fs0) \ called :
        IF skipped(path)
        THEN /\ pc = "idle"
             /\ called' = called \cup {path}
             /\ UNCHANGED <<test_fs, index, pc, tx, call, fs0, compared>>
        ELSE /\ add_file_call(path)
             /\ called' = called \cup {path}

\* run_for_folder after the walk: sanity_check; then run saves the index
RunEnd ==
    /\ pc = "idle"
    /\ called = walked(fs0)
    /\ pc' = IF sanity_check(index) THEN "saved" ELSE "panicked"
    /\ UNCHANGED <<test_fs, index, tx, call, fs0, compared, called>>

\* one run over a filesystem whose calls may fail
NextRun ==
    \/ RunStart
    \/ RunWalk
    \/ TxRename
    \/ TxHardLink
    \/ TxRestat
    \/ TxRemove
    \/ TxFault
    \/ RunEnd

SpecRun == InitRun /\ [][NextRun]_vars

---------------------------------------------------------------------------
(* compare_files on its own *)

\* the finite streams of at most MaxStream bytes
Streams == UNION {[1..n -> Bytes] : n \in 0..MaxStream}

RECURSIVE Sum(_)
Sum(seq) == IF seq = <<>> THEN 0 ELSE Head(seq) + Sum(Tail(seq))

\* the ways the reads of a stream of n bytes may be split: the sizes of the reads, each
\* at least one byte
Reads(n) == {reads \in UNION {[1..k -> 1..n] : k \in 0..n} : Sum(reads) = n}

\* two files a and b holding any two streams
InitCompare ==
    /\ \E s1, s2 \in Streams :
          test_fs = [filedata_ |-> (<<"a">> :> s1 @@ <<"b">> :> s2),
                     inodes_ |-> (<<"a">> :> 1 @@ <<"b">> :> 2)]
    /\ index = EmptyIndex
    /\ pc = "compare"
    /\ tx = NoTx
    /\ call = NoCall
    /\ fs0 = test_fs
    /\ called = {}
    /\ compared = [at |-> "ready"]

\* compare_files(fs, a, b, short_circuit), the files being read in any split
CompareFiles ==
    /\ pc = "compare"
    /\ \E short_circuit \in BOOLEAN,
          reads1 \in Reads(Len(test_fs.filedata_[<<"a">>])),
          reads2 \in Reads(Len(test_fs.filedata_[<<"b">>])) :
          compared' = [at |-> "done", short_circuit |-> short_circuit,
                       reads1 |-> reads1, reads2 |-> reads2,
                       result |-> compare_files_reads(
                                      test_fs,
                                      FileEntry_new(test_fs, <<"a">>).entry,
                                      FileEntry_new(test_fs, <<"b">>).entry,
                                      short_circuit, reads1, reads2)]
    /\ pc' = "compared"
    /\ UNCHANGED <<test_fs, index, tx, call, fs0, called>>

SpecCompare == InitCompare /\ [][CompareFiles]_vars

---------------------------------------------------------------------------
(* Claims *)

\* the byte contents some path of the filesystem leads to
ReachableBytes(fs) == {fs.filedata_[p] : p \in DOMAIN fs.filedata_}

\* C1: no data loss: in every state of a run, the set of byte contents reachable by
\* some path equals the set reachable before the first add_file call.
C1_NoDataLoss == ReachableBytes(test_fs) = ReachableBytes(fs0)

TxNewPath == tx.new_entry.relative_path

TxBackupPath == backup_path(tx.new_entry.relative_path)

HoldsBytes(fs, path, bytes) == path \in DOMAIN fs.filedata_ /\ fs.filedata_[path] = bytes

\* the re-stat of the new path shows the existing entry's inode
InodeConfirmed ==
    /\ TxNewPath \in DOMAIN test_fs.inodes_
    /\ test_fs.inodes_[TxNewPath] = tx.existing_entry.stat_inode

\* the states of the link transaction, one per filesystem call still to make
CrashPoint ==
    /\ pc = "rename" => HoldsBytes(test_fs, TxNewPath, tx.bytes)
    /\ pc = "hard_link" => HoldsBytes(test_fs, TxBackupPath, tx.bytes)
    /\ pc \in {"restat", "remove"} =>
           /\ TxNewPath \in DOMAIN test_fs.filedata_
           /\ HoldsBytes(test_fs, TxBackupPath, tx.bytes)
    /\ pc = "remove" => InodeConfirmed
    /\ (pc = "panicked" /\ call.failed_at = "restat") =>
           HoldsBytes(test_fs, TxBackupPath, tx.bytes)

\* a step of the transaction that makes the .backup sibling disappear
BackupRemoved ==
    /\ pc \in {"hard_link", "restat", "remove"}
    /\ TxBackupPath \in DOMAIN test_fs.filedata_
    /\ TxBackupPath \notin DOMAIN test_fs'.filedata_

\* C2: crash safety of the link transaction: before the rename the new file's bytes are
\* at its path, after the rename and before the hard link they are at the .backup
\* sibling, after the hard link and before the removal both the linked name and the
\* .backup exist, and the .backup disappears only in the step that follows a re-stat
\* which showed the existing entry's inode.
C2_CrashSafety == [](CrashPoint) /\ [][BackupRemoved => (pc = "remove" /\ InodeConfirmed)]_vars

C2_Witness ==
    /\ pc = "remove"
    /\ TxNewPath \in DOMAIN test_fs.filedata_
    /\ HoldsBytes(test_fs, TxBackupPath, tx.bytes)

\* C3: rollback on link failure: when a filesystem call of the transaction fails after
\* the rename to .backup succeeded, add_file returns the error with the new file again
\* at its original path, with its original bytes and inode.
C3_RollbackOnLinkFailure ==
    (pc = "idle" /\ call.result = "Err" /\ call.failed_at \in {"hard_link", "restat", "remove"})
        => /\ HoldsBytes(test_fs, TxNewPath, tx.bytes)
           /\ TxNewPath \in DOMAIN test_fs.inodes_
           /\ test_fs.inodes_[TxNewPath] = tx.new_entry.stat_inode

Slots(ix) == 0..(Len(ix.entries) - 1)

InBucket(m, k, v) == k \in DOMAIN m /\ v \in m[k]

\* the entry-to-map and the map-to-entry direction of the secondary maps
IndexMembership(ix) ==
    /\ \A i \in Slots(ix) :
         LET e == EntryAt(ix, i) IN
         /\ e.relative_path \in DOMAIN ix.by_relative_path
         /\ ix.by_relative_path[e.relative_path] = i
         /\ InBucket(ix.by_size, e.stat_size, i)
         /\ InBucket(ix.by_inode, e.stat_inode, i)
         /\ InBucket(ix.inode_by_size, e.stat_size, e.stat_inode)
         /\ e.fast_hash # None =>
                /\ InBucket(ix.by_hash, e.fast_hash[1], i)
                /\ InBucket(ix.inode_by_hash, e.fast_hash[1], e.stat_inode)
    /\ \A k \in DOMAIN ix.by_size : \A i \in ix.by_size[k] :
         i \in Slots(ix) /\ EntryAt(ix, i).stat_size = k
    /\ \A k \in DOMAIN ix.by_inode : \A i \in ix.by_inode[k] :
         i \in Slots(ix) /\ EntryAt(ix, i).stat_inode = k
    /\ \A k \in DOMAIN ix.by_hash : \A i \in ix.by_hash[k] :
         i \in Slots(ix) /\ EntryAt(ix, i).fast_hash = Some(k)

\* C4: index membership: after every add_file call, whether it returned Ok or Err,
\* every entry is in every secondary map under its keys, and every slot listed in a
\* by_size, by_inode or by_hash bucket holds an entry with that key.
C4_IndexMembership ==
    (pc = "idle" /\ call.result \in {"Ok", "Err"}) => IndexMembership(index)

C4_Witness ==
    /\ pc = "idle"
    /\ call.result = "Err"
    /\ \E i, j \in Slots(index) :
         /\ i # j
         /\ EntryAt(index, i).stat_inode = EntryAt(index, j).stat_inode
         /\ EntryAt(index, i).fast_hash # None

InodesOfSize(ix, s) == {EntryAt(ix, i).stat_inode : i \in {j \in Slots(ix) : EntryAt(ix, j).stat_size = s}}

\* C5: hashing obligation: after every successful add_file call, every entry of a size
\* whose entries span more than one inode has a hash.
C5_HashingObligation ==
    (pc = "idle" /\ call.result = "Ok") =>
        \A i \in Slots(index) :
            Cardinality(InodesOfSize(index, EntryAt(index, i).stat_size)) > 1
                => EntryAt(index, i).fast_hash # None

\* C6: hash coherence: after every successful add_file call, the entries of one
\* by_inode bucket carry the same fast_hash, all absent or all present and equal.
C6_HashCoherence ==
    (pc = "idle" /\ call.result = "Ok") =>
        \A k \in DOMAIN index.by_inode : \A i, j \in index.by_inode[k] :
            EntryAt(index, i).fast_hash = EntryAt(index, j).fast_hash

\* C7: inode equivalence: two entries that both have a hash and agree on
\* (stat_size, fast_hash) agree on stat_inode.
C7_InodeEquivalence ==
    \A i, j \in Slots(index) :
        LET e == EntryAt(index, i)
            f == EntryAt(index, j)
        IN  (e.fast_hash # None /\ e.fast_hash = f.fast_hash /\ e.stat_size = f.stat_size)
                => e.stat_inode = f.stat_inode

C7_Witness ==
    /\ pc = "idle"
    /\ call.result = "Ok"
    /\ \E i, j, k \in Slots(index) :
         /\ i # j
         /\ EntryAt(index, i).fast_hash # None
         /\ EntryAt(index, i).fast_hash = EntryAt(index, j).fast_hash
         /\ EntryAt(index, k).stat_size = EntryAt(index, i).stat_size
         /\ EntryAt(index, k).fast_hash # None
         /\ EntryAt(index, k).fast_hash # EntryAt(index, i).fast_hash

\* every path of the tree has an inode of its own
DistinctInodes(fs) ==
    \A p, q \in DOMAIN fs.inodes_ : p # q => fs.inodes_[p] # fs.inodes_[q]

\* C8: deduplication is complete: for a tree of pairwise distinct inodes, once add_file
\* was called once on every path, by_inode has as many keys as the tree has distinct
\* contents, every path is indexed, and two paths of equal content share one inode in
\* the index and in the filesystem.
C8_DedupComplete ==
    (DistinctInodes(fs0) /\ pc = "idle" /\ called = DOMAIN fs0.filedata_) =>
        /\ Cardinality(DOMAIN index.by_inode) = Cardinality(ReachableBytes(fs0))
        /\ \A p \in DOMAIN fs0.filedata_ : p \in DOMAIN index.by_relative_path
        /\ \A p, q \in DOMAIN fs0.filedata_ :
             (fs0.filedata_[p] = fs0.filedata_[q]) =>
                 /\ p \in DOMAIN index.by_relative_path
                 /\ q \in DOMAIN index.by_relative_path
                 /\ EntryAt(index, index.by_relative_path[p]).stat_inode
                      = EntryAt(index, index.by_relative_path[q]).stat_inode
                 /\ p \in DOMAIN test_fs.inodes_
                 /\ q \in DOMAIN test_fs.inodes_
                 /\ test_fs.inodes_[p] = test_fs.inodes_[q]

\* C9: path bijection: by_relative_path has one key per slot, no two slots carry the
\* same relative_path, and each key maps to the slot that carries it.
C9_PathBijection ==
    /\ Cardinality(DOMAIN index.by_relative_path) = Len(index.entries)
    /\ \A i, j \in Slots(index) :
         i # j => EntryAt(index, i).relative_path # EntryAt(index, j).relative_path
    /\ \A p \in DOMAIN index.by_relative_path :
         /\ index.by_relative_path[p] \in Slots(index)
         /\ EntryAt(index, index.by_relative_path[p]).relative_path = p

C9_Witness ==
    /\ pc = "idle"
    /\ Len(index.entries) = 3
    /\ EntryAt(index, 0).fast_hash # None

\* C10: idempotence of admission: a call of add_file on the path of the call that just
\* returned Ok returns Ok, leaves the index and the filesystem as they were and does
\* not enter the link transaction.
C10_Idempotence ==
    [][(pc = "idle" /\ call.result = "Ok" /\ call'.path = call.path)
         => (index' = index /\ test_fs' = test_fs /\ pc' = "idle" /\ call'.result = "Ok")]_vars

C10_Witness ==
    /\ pc = "idle"
    /\ call.result = "Ok"
    /\ call.again
    /\ call.entry.fast_hash # None
    /\ \E i \in Slots(index) :
         /\ EntryAt(index, i).relative_path # call.path
         /\ EntryAt(index, i).stat_inode = call.entry.stat_inode
         /\ EntryAt(index, i).fast_hash = call.entry.fast_hash

\* C13: link-transaction preconditions: every time add_file invokes
\* hard_link_and_insert(existing, new), the two entries agree on stat_size and on a
\* present fast_hash and differ in stat_inode, so that none of the three assertions at
\* the head of the transaction fails.
C13_LinkPreconditions ==
    /\ ~(pc = "panicked" /\ call.failed_at = "assert")
    /\ pc = "rename" =>
           /\ link_asserts(tx.existing_entry, tx.new_entry)
           /\ tx.existing_entry.fast_hash # None
           /\ tx.new_entry.fast_hash # None

\* C14: inode already known: when add_file is called on a path whose inode is a key of
\* by_inode, the entry it upserts and returns carries the fast_hash of the entries that
\* share that inode.
C14_InodeKnownCopiesHash ==
    (pc = "idle" /\ call.result = "Ok" /\ call.branch = "inode_known") =>
        \A i \in index.by_inode[call.entry.stat_inode] :
            EntryAt(index, i).fast_hash = call.entry.fast_hash

\* the last add_file call has ended, by a return or by a failed assertion
CallEnded == pc \in {"idle", "panicked"}

\* the last add_file call took the given branch and invoked the link transaction
LinkedIn(branch) == CallEnded /\ call.branch = branch /\ tx # NoTx

\* the entry the index holds for a path
EntryOf(ix, path) == EntryAt(ix, ix.by_relative_path[path])

\* the last call returned the post-link entry of its path, on the inode of E
PostLink(E) ==
    /\ call.result = "Ok"
    /\ call.entry.relative_path = call.path
    /\ call.entry.stat_inode = E.stat_inode
    /\ call.path \in DOMAIN test_fs.inodes_
    /\ test_fs.inodes_[call.path] = E.stat_inode

\* C15: one candidate, equal content: when add_file is called on a file whose inode is
\* not indexed and whose size bucket holds exactly one entry E with byte-identical
\* content, then afterwards E and the new entry carry the same present fast_hash, the
\* new path is on E's inode in the filesystem, the returned entry is the post-link
\* entry with E's inode, inode_by_size of that size has one element and the new path
\* has no .backup sibling.
C15_OneCandidateEqual ==
    LinkedIn("one_candidate") =>
        /\ PostLink(tx.existing_entry)
        /\ call.entry.fast_hash # None
        /\ EntryOf(index, tx.existing_entry.relative_path).fast_hash = call.entry.fast_hash
        /\ Cardinality(index.inode_by_size[call.entry.stat_size]) = 1
        /\ backup_path(call.path) \notin DOMAIN test_fs.filedata_

\* the digest of the bytes a path leads to
DigestOf(fs, path) == Some(finish_ext(fs.filedata_[path]))

\* the last add_file call took the given branch and returned Ok without invoking the
\* link transaction, hence without a call of rename, hard_link or remove_file
UpsertedIn(branch) ==
    pc = "idle" /\ call.result = "Ok" /\ call.branch = branch /\ tx = NoTx

\* a step that is a call of add_file on path, taking the given branch
Calls(path, branch) ==
    /\ pc = "idle"
    /\ call'.path = path
    /\ admission_case(index, test_fs, path) = branch

\* the size bucket a call of add_file on path meets
Candidates(path) == index.by_size[metadata(test_fs, path).size]

\* the candidate's file is there and holds the same bytes as the file at path
SameBytes(e, path) ==
    /\ e.relative_path \in DOMAIN test_fs.filedata_
    /\ test_fs.filedata_[e.relative_path] = test_fs.filedata_[path]

\* the candidate's file is there and holds other bytes than the file at path
OtherBytes(e, path) ==
    /\ e.relative_path \in DOMAIN test_fs.filedata_
    /\ test_fs.filedata_[e.relative_path] # test_fs.filedata_[path]

\* the step returns Ok at once: the link transaction is not invoked, so that rename,
\* hard_link and remove_file are not called and the filesystem is as it was
ReturnsWithoutLink ==
    /\ pc' = "idle"
    /\ call'.result = "Ok"
    /\ tx' = NoTx
    /\ test_fs' = test_fs

NoMatchUpserts(path) ==
    (\A i \in Candidates(path) : OtherBytes(EntryAt(index, i), path))
        => /\ ReturnsWithoutLink
           /\ call'.entry = EntryOf(index', path)
           /\ call'.entry.fast_hash = DigestOf(test_fs, path)
           /\ call'.entry.stat_inode = test_fs.inodes_[path]

\* with a byte-identical candidate the transaction is invoked on such a candidate
MatchLinks(path) ==
    (\E i \in Candidates(path) : SameBytes(EntryAt(index, i), path))
        => /\ pc' = "rename"
           /\ tx'.new_entry.relative_path = path
           /\ tx'.new_entry.fast_hash = DigestOf(test_fs, path)
           /\ \E i \in Candidates(path) :
                /\ tx'.existing_entry = EntryAt(index, i)
                /\ SameBytes(EntryAt(index, i), path)

\* C17: two or more candidates: when add_file is called on a file whose inode is not
\* indexed and whose size bucket holds two or more entries, the new entry gets a
\* present fast_hash; if some candidate is byte-identical the link transaction is
\* invoked once, on a byte-identical candidate, and the new path ends on that
\* candidate's inode; if none is, the new entry is upserted with its own inode and no
\* filesystem mutator is invoked.
C17_ManyCandidates ==
    /\ [](LinkedIn("many_candidates") =>
             (PostLink(tx.existing_entry) /\ call.entry.fast_hash # None))
    /\ [][\A path \in AllPaths :
            Calls(path, "many_candidates") => (NoMatchUpserts(path) /\ MatchLinks(path))]_vars

\* the entries of an index as a path-indexed table
EntryTable(ix) == [p \in DOMAIN ix.by_relative_path |-> EntryOf(ix, p)]

\* two runs end alike: same result, same entries, same filesystem tables
SameEnd(r1, r2) ==
    /\ r1.result = r2.result
    /\ EntryTable(r1.index) = EntryTable(r2.index)
    /\ r1.fs = r2.fs

\* C18: candidate order is irrelevant: in any reachable index state, for a file that
\* falls in the two-or-more-candidates case, two runs of add_file that differ only in
\* the iteration order of the size bucket end with the same result, the same index
\* entries and the same filesystem tables.
C18_OrderIrrelevant ==
    pc = "idle" =>
        \A path \in AllPaths :
            admission_case(index, test_fs, path) = "many_candidates" =>
                \A o1, o2 \in Perms(Candidates(path)) :
                    SameEnd(add_file_run(index, test_fs, path, o1),
                            add_file_run(index, test_fs, path, o2))

\* every hash of the index after the step was there before it, on the same path
NoHashComputed ==
    \A p \in DOMAIN index'.by_relative_path :
        EntryOf(index', p).fast_hash # None =>
            /\ p \in DOMAIN index.by_relative_path
            /\ EntryOf(index, p).fast_hash = EntryOf(index', p).fast_hash

\* every file of the tree has a size and an inode of its own
DistinctSizes(fs) ==
    \A p, q \in DOMAIN fs.filedata_ : p # q => Len(fs.filedata_[p]) # Len(fs.filedata_[q])

\* one entry, one inode bucket and one size bucket per admitted file, and no hash
OnePerFile(ix) ==
    /\ Cardinality(DOMAIN ix.by_relative_path) = Len(ix.entries)
    /\ Cardinality(DOMAIN ix.by_inode) = Len(ix.entries)
    /\ Cardinality(DOMAIN ix.by_size) = Len(ix.entries)
    /\ \A i \in Slots(ix) :
         /\ EntryAt(ix, i).fast_hash = None
         /\ ix.by_inode[EntryAt(ix, i).stat_inode] = {i}
         /\ ix.by_size[EntryAt(ix, i).stat_size] = {i}
    /\ DOMAIN ix.by_hash = {}

\* C19: cheapest sufficient evidence: a call of add_file on a path whose inode is
\* already indexed, or whose size has no bucket in by_size, returns Ok without a call
\* of fs.open, without computing a hash and without a filesystem mutator; and when the
\* files of the tree have pairwise distinct sizes and inodes, the index holds one
\* entry, one inode bucket and one size bucket per admitted file and no hash.
C19_CheapestEvidence ==
    /\ []((DistinctSizes(fs0) /\ DistinctInodes(fs0)) => OnePerFile(index))
    /\ [][\A path \in AllPaths :
            (Calls(path, "inode_known") \/ Calls(path, "size_unique"))
                => /\ ReturnsWithoutLink
                   /\ call'.opened = 0
                   /\ NoHashComputed]_vars

C19_Witness ==
    /\ pc = "idle"
    /\ call.result = "Ok"
    /\ call.branch = "inode_known"
    /\ call.opened = 0
    /\ call.entry.fast_hash = None
    /\ DOMAIN index.by_hash # {}

\* add_file returned the error of a mutator of the read-only filesystem
ReadOnlyFsError == pc = "idle" /\ call.result = "Err" /\ call.failed_at = "rename"

\* C20: read-only transaction: over the read-only filesystem, add_file on a file that
\* is a confirmed duplicate of an indexed entry returns Ok with the unmodified new
\* entry (its own inode, the hash attached), no call of rename, hard_link or
\* remove_file is ever reached, and add_file never returns the ReadOnlyFs error.
C20_ReadOnlyTransaction ==
    /\ pc \notin {"rename", "hard_link", "remove"}
    /\ ~ReadOnlyFsError
    /\ (pc = "idle" /\ tx # NoTx) =>
           /\ call.result = "Ok"
           /\ call.entry = tx.new_entry
           /\ call.entry.fast_hash # None

\* the entries of an index as a bag
EntryBag(ix) ==
    [e \in {ix.entries[i] : i \in 1..Len(ix.entries)} |->
        Cardinality({i \in 1..Len(ix.entries) : ix.entries[i] = e})]

\* the entries of one by_inode bucket agree on fast_hash
HashCoherence(ix) ==
    \A k \in DOMAIN ix.by_inode : \A i, j \in ix.by_inode[k] :
        EntryAt(ix, i).fast_hash = EntryAt(ix, j).fast_hash

\* every entry of a size that spans several inodes has a hash
HashingObligation(ix) ==
    \A i \in Slots(ix) :
        Cardinality(InodesOfSize(ix, EntryAt(ix, i).stat_size)) > 1
            => EntryAt(ix, i).fast_hash # None

\* C11: round trip through the sidecar: for an index X reached by add_file calls,
\* saving X and loading what was saved yields an index Y with the same entries as a
\* multiset, and Y satisfies the membership invariants, hash coherence and the hashing
\* obligation.
C11_RoundTrip ==
    (pc = "idle" /\ call.result \in {"none", "Ok", "Err"}) =>
        LET Y == for_base_path(save(index)) IN
        /\ EntryBag(Y) = EntryBag(index)
        /\ IndexMembership(Y)
        /\ HashCoherence(Y)
        /\ HashingObligation(Y)

\* C12: re-admission after reload: the index is loaded from a sidecar whose rows list
\* several paths with one shared inode and hash, and the files on disk hold the recorded
\* content (on the recorded inode or on other, possibly pairwise distinct, inodes); then
\* every add_file call on a listed path returns Ok, for every iteration order of the size
\* bucket, and once every listed path has been called the audit passes.
C12_ReAdmission ==
    /\ call.result \in {"none", "pending", "Ok"}
    /\ (pc = "idle" /\ called = DOMAIN fs0.filedata_) => sanity_check(index)

\* the link was made and the re-stat of the new path disagrees with the existing entry
RestatDisagrees ==
    /\ pc = "restat"
    /\ LET made == FileEntry_new(test_fs, tx.new_entry.relative_path) IN
       /\ made.ok
       /\ <<tx.new_entry.fast_hash, made.entry.stat_size, made.entry.stat_inode>>
              # <<tx.existing_entry.fast_hash, tx.existing_entry.stat_size,
                   tx.existing_entry.stat_inode>>

\* the .backup of the transaction's new file exists and holds that file's original bytes
BackupHoldsNewBytes(fs) ==
    /\ backup_path(tx.new_entry.relative_path) \in DOMAIN fs.filedata_
    /\ fs.filedata_[backup_path(tx.new_entry.relative_path)] = tx.bytes

\* C21: consistency failure keeps the backup: when the re-stat after hard_link does
\* not show (hash, size, inode) equal to the existing entry's, the transaction aborts:
\* it does not go on to remove_file, the filesystem and the index stay as they are (no
\* removal, no upsert), and the .backup exists with the new file's original bytes.
C21_FailureKeepsBackup ==
    [][RestatDisagrees =>
          /\ pc' = "panicked"
          /\ test_fs' = test_fs
          /\ index' = index
          /\ BackupHoldsNewBytes(test_fs')]_vars

C21_Witness ==
    /\ pc = "panicked"
    /\ call.failed_at = "restat"
    /\ BackupHoldsNewBytes(test_fs)

\* C22: absent sidecar is normal: when .index_file.csv does not exist, loading the
\* index succeeds with an empty index and the run goes on to walk the tree.
C22_AbsentSidecar ==
    [][Start(None) => (pc' = "idle" /\ index' = EmptyIndex)]_vars

\* a file whose name ends in .backup
EndsInBackup(path) == Len(path) > 1 /\ path[Len(path)] = "backup"

\* C23: walker skip rule: during a run add_file is never called on the sidecar nor on
\* a file whose name ends in .backup, so that no .backup file is admitted to the index
\* or becomes the existing or the new file of a link transaction.
C23_WalkerSkips ==
    /\ call.path # SidecarPath
    /\ ~EndsInBackup(call.path)
    /\ \A i \in 1..Len(index.entries) : ~EndsInBackup(index.entries[i].relative_path)
    /\ ~EndsInBackup(tx.existing_entry.relative_path)
    /\ ~EndsInBackup(tx.new_entry.relative_path)

\* C24: per-entry errors do not abort the run: when the latest add_file call of the
\* run has failed (it returned Err, or an assert inside it failed), the run has not
\* stopped short: it is walking on to the later paths, or it has ended with the final
\* audit passed and the index saved.
C24_ErrorsDoNotAbort ==
    call.result \in {"Err", "panic"} => pc \in {"idle", "rename", "hard_link", "restat", "remove", "saved"}

\* C25: comparator verdict: compare_files reports equal = TRUE exactly when the two
\* streams hold the same bytes, in both modes, for every pair of streams and every
\* way their reads are split.
C25_ComparatorVerdict ==
    compared.at = "done" =>
        /\ compared.result.ok
        /\ compared.result.equal <=> (test_fs.filedata_[<<"a">>] = test_fs.filedata_[<<"b">>])

\* C26: comparator full mode: with short_circuit = FALSE compare_files reads both
\* streams to end-of-file and returns two digests, each the digest of the whole content
\* of its own stream, also for streams of different lengths in either order.
C26_ComparatorFullMode ==
    (compared.at = "done" /\ ~compared.short_circuit) =>
        /\ compared.result.ok
        /\ compared.result.eof1
        /\ compared.result.eof2
        /\ compared.result.hashes = Some(<<finish_ext(test_fs.filedata_[<<"a">>]),
                                            finish_ext(test_fs.filedata_[<<"b">>])>>)

\* the map-to-entry direction of by_relative_path, inode_by_size and inode_by_hash:
\* every path, and every inode listed under a size or a hash, is that of some entry
\* with that key
InodeMapsExact(ix) ==
    /\ \A p \in DOMAIN ix.by_relative_path :
         ix.by_relative_path[p] \in Slots(ix)
            /\ EntryAt(ix, ix.by_relative_path[p]).relative_path = p
    /\ \A k \in DOMAIN ix.inode_by_size : \A ino \in ix.inode_by_size[k] :
         \E i \in Slots(ix) :
            EntryAt(ix, i).stat_size = k /\ EntryAt(ix, i).stat_inode = ino
    /\ \A k \in DOMAIN ix.inode_by_hash : \A ino \in ix.inode_by_hash[k] :
         \E i \in Slots(ix) :
            EntryAt(ix, i).fast_hash = Some(k) /\ EntryAt(ix, i).stat_inode = ino

\* the index-wide invariants of the data model
IndexWideInvariants(ix) ==
    /\ IndexMembership(ix)
    /\ HashCoherence(ix)
    /\ HashingObligation(ix)

\* C27: audit exactness: sanity_check passes on an index state exactly when the state
\* satisfies the index-wide invariants (membership, hash coherence, and the hashing
\* obligation for sizes with more than one distinct inode), and a state it passes has
\* every secondary map exact in the map-to-entry direction as well.
C27_AuditExactness ==
    /\ sanity_check(index) <=> IndexWideInvariants(index)
    /\ sanity_check(index) => InodeMapsExact(index)

\* the entry of slot i is in every secondary map under its keys
SlotInMaps(ix, i) ==
    LET e == EntryAt(ix, i) IN
    /\ e.relative_path \in DOMAIN ix.by_relative_path
    /\ ix.by_relative_path[e.relative_path] = i
    /\ InBucket(ix.by_size, e.stat_size, i)
    /\ InBucket(ix.by_inode, e.stat_inode, i)
    /\ InBucket(ix.inode_by_size, e.stat_size, e.stat_inode)
    /\ e.fast_hash # None =>
           /\ InBucket(ix.by_hash, e.fast_hash[1], i)
           /\ InBucket(ix.inode_by_hash, e.fast_hash[1], e.stat_inode)

\* path is indexed, and its size or inode on disk differs from the indexed entry
StatsChanged(ix, fs, path) ==
    /\ path \in DOMAIN ix.by_relative_path
    /\ metadata(fs, path).ok
    /\ LET e == EntryAt(ix, ix.by_relative_path[path]) IN
          \/ e.stat_size # metadata(fs, path).size
          \/ e.stat_inode # metadata(fs, path).inode

\* the entry of path is replaced in its slot by the stats now on disk: entries does
\* not grow and no other slot changes but for a hash it gains
ReplacedInSlot(path) ==
    LET idx == index.by_relative_path[path] IN
    /\ Len(index'.entries) = Len(index.entries)
    /\ index'.by_relative_path = index.by_relative_path
    /\ EntryAt(index', idx).relative_path = path
    /\ EntryAt(index', idx).stat_size = metadata(test_fs, path).size
    /\ EntryAt(index', idx).stat_inode = metadata(test_fs, path).inode
    /\ \A i \in Slots(index) \ {idx} : eq_except_hash(EntryAt(index', i), EntryAt(index, i))

\* C28: re-observation with changed stats: when add_file is called on a path that is
\* indexed with a size or inode other than the one on disk and returns Ok, the entry
\* is replaced in the same slot (entries does not grow, no other slot changes) and
\* the membership invariants still hold for every other entry.
C28_ReobservedChanged ==
    [][\A path \in AllPaths :
          (/\ WalkAddFile(path)
           /\ StatsChanged(index, test_fs, path)
           /\ IndexMembership(index)
           /\ pc' = "idle" /\ call'.result = "Ok")
          => /\ ReplacedInSlot(path)
             /\ \A i \in Slots(index') \ {index.by_relative_path[path]} :
                    SlotInMaps(index', i)]_vars

\* C29: no self-linking: add_file never enters the link transaction with the index
\* entry of the path it was called on as the existing entry, also when that entry
\* records an inode other than the one on disk; so no file is renamed to .backup with
\* its own path as the source of the hard link.
C29_NoSelfLinking ==
    pc \in {"rename", "hard_link", "restat", "remove"} =>
        tx.existing_entry.relative_path # tx.new_entry.relative_path

\* C30: early errors leave everything unchanged: when add_file returns Err before the
\* link transaction is entered (the path is not found at metadata time, or a candidate
\* or the new file cannot be opened or read), entries, all secondary maps and the
\* filesystem are exactly as before the call.
C30_EarlyErrors ==
    [][\A path \in AllPaths :
          (add_file_call(path) /\ call'.result = "Err" /\ call'.failed_at = "none")
          => (index' = index /\ test_fs' = test_fs)]_vars

C30_Witness ==
    /\ pc = "idle"
    /\ call.result = "Err"
    /\ call.failed_at = "none"
    /\ call.branch \in {"one_candidate", "many_candidates"}
    /\ call.opened > 0
    /\ index.entries # <<>>

\* every key of the map leads to a non-empty set
NoEmptyBucket(m) == \A k \in DOMAIN m : m[k] # {}

\* C31: no empty buckets: after any sequence of add_file calls, also calls that
\* re-observe an indexed path whose size, inode or content changed, every key of
\* by_size, by_inode, by_hash, inode_by_size and inode_by_hash maps to a non-empty
\* set, so by_size has a key for a size exactly when some entry has that size.
C31_NoEmptyBuckets ==
    /\ NoEmptyBucket(index.by_size)
    /\ NoEmptyBucket(index.by_inode)
    /\ NoEmptyBucket(index.by_hash)
    /\ NoEmptyBucket(index.inode_by_size)
    /\ NoEmptyBucket(index.inode_by_hash)
    /\ \A size \in DOMAIN index.by_size :
          \E i \in Slots(index) : EntryAt(index, i).stat_size = size
    /\ \A i \in Slots(index) : EntryAt(index, i).stat_size \in DOMAIN index.by_size

=============================================================================
